---- MODULE Spec2Model ----
(***************************************************************************)
(* A model of chatbot.py: the query dispatcher of the travel-enquiry chat  *)
(* endpoint (norm, find_trains, find_buses, fetch_train_status,            *)
(* parse_train_response, chatbot, ask) and the process-wide conversation   *)
(* list `messages`.                                                        *)
(*                                                                         *)
(* Python strings that the code inspects character by character (queries, *)
(* routes, model replies, JSON strings) are sequences of one-character     *)
(* strings; names the code only copies are TLA+ strings.                   *)
(* Python's None is the empty sequence <<>> and a present value x is <<x>>.*)
(***************************************************************************)
EXTENDS Integers, Sequences, FiniteSets, TLC

VARIABLES
    trains,      \* module global `trains` (loaded once by load_json)
    buses,       \* module global `buses`
    messages,    \* module global `messages`, the conversation list
    threaded,    \* whether the server handles requests on concurrent threads
    pc,          \* per handler thread: where it is inside chatbot
    query,       \* per handler thread: the query of the request in progress
    before,      \* per handler thread: Len(messages) when its request began
    forwarded,   \* per handler thread: the history passed to the model call
    log,         \* completed requests, in order of completion
    llmCount,    \* number of client.chat.completions.create calls made
    statusCount, \* number of requests.get calls made to the status API
    mq,          \* input of the pure-function specifications
    tres,        \* result of find_trains(mq), once computed
    bres,        \* result of find_buses(mq), once computed
    rx,          \* result of re.search(r"\b(\d{5})\b", mq), once computed
    sapi,        \* what the status API does, in the status specification
    sres         \* result of chatbot's live-status branch on mq and sapi

vars == <<trains, buses, messages, threaded, pc, query, before, forwarded, log,
          llmCount, statusCount, mq, tres, bres, rx, sapi, sres>>

serverVars == <<messages, threaded, pc, query, before, forwarded, log,
                llmCount, statusCount>>

pureVars == <<mq, tres, bres, rx, sapi, sres>>

(***************************************************************************)
(* Bounds of the model.                                                    *)
(***************************************************************************)
MaxRequests == 2    \* requests received by the server in one behaviour
MaxRecords == 2     \* records per dataset in the matcher specification
MaxLen == 7         \* length of the exhaustively enumerated regex inputs

None == <<>>
Some(x) == <<x>>

(***************************************************************************)
(* Characters.                                                             *)
(***************************************************************************)
LowerLetters == <<"a","b","c","d","e","f","g","h","i","j","k","l","m","n","o","p","q","r","s","t","u","v","w","x","y","z">>
UpperLetters == <<"A","B","C","D","E","F","G","H","I","J","K","L","M","N","O","P","Q","R","S","T","U","V","W","X","Y","Z">>
Digits == {"0","1","2","3","4","5","6","7","8","9"}
Whitespace == {" ", "\n", "\t"}
LowerSet == {LowerLetters[i] : i \in 1..Len(LowerLetters)}
UpperSet == {UpperLetters[i] : i \in 1..Len(UpperLetters)}
\* each uppercase letter's lowercase form
LowerOf == [c \in UpperSet |->
              LowerLetters[CHOOSE i \in 1..Len(UpperLetters) : UpperLetters[i] = c]]

IsLower(c) == c \in LowerSet
IsUpper(c) == c \in UpperSet
IsDigit(c) == c \in Digits
\* \w of the re module, on the characters the model uses
IsWord(c) == IsLower(c) \/ IsUpper(c) \/ IsDigit(c) \/ c = "_"

\* str.lower, one character
LowerChar(c) == IF IsUpper(c) THEN LowerOf[c] ELSE c

\* str.lower
Lower(s) == [i \in 1..Len(s) |-> LowerChar(s[i])]

\* the characters re.sub(r"[^a-z0-9 ]", "", ...) keeps
Kept(c) == IsLower(c) \/ IsDigit(c) \/ c = " "

RECURSIVE RemoveOthers(_)
RemoveOthers(s) ==
    IF s = <<>> THEN <<>>
    ELSE IF Kept(Head(s)) THEN <<Head(s)>> \o RemoveOthers(Tail(s))
    ELSE RemoveOthers(Tail(s))

\* norm(text): lowercase, then drop every character outside [a-z0-9 ]
norm(text) == RemoveOthers(Lower(text))

\* Python's `a in b` on strings
IsSubstring(a, b) ==
    \E i \in 0..(Len(b) - Len(a)) : SubSeq(b, i + 1, i + Len(a)) = a

\* the literal separator " to "
Separator == <<" ","t","o"," ">>

\* str.find(sep): the 1-based index of the first occurrence, 0 when absent
Find(s, sep) ==
    LET hits == {i \in 1..(Len(s) - Len(sep) + 1) :
                    SubSeq(s, i, i + Len(sep) - 1) = sep}
    IN IF hits = {} THEN 0 ELSE CHOOSE i \in hits : \A j \in hits : i <= j

\* str.split(sep): scans left to right, occurrences do not overlap
RECURSIVE Split(_, _)
Split(s, sep) ==
    LET i == Find(s, sep)
    IN IF i = 0 THEN <<s>>
       ELSE <<SubSeq(s, 1, i - 1)>> \o Split(SubSeq(s, i + Len(sep), Len(s)), sep)

\* dict.get(key, default)
Get(d, key, default) == IF key \in DOMAIN d THEN d[key] ELSE default

(***************************************************************************)
(* The Schedule Matcher.                                                   *)
(***************************************************************************)
\* variant: one endpoint in the query is enough
PartsMatch_Any(parts, q) ==
    Len(parts) = 2 /\ \E k \in 1..Len(parts) : IsSubstring(norm(parts[k]), q)

\* len(parts) == 2 and all(norm(p) in q for p in parts)
PartsMatch(parts, q) ==
    Len(parts) = 2 /\ \A k \in 1..Len(parts) : IsSubstring(norm(parts[k]), q)

TrainResult(d, route, parts) ==
    [name |-> Get(d, "trainName", "N/A"),
     number |-> Get(d, "trainNumber", "N/A"),
     route |-> route,
     duration |-> Get(d, "duration", "N/A"),
     departure |-> parts[1],
     arrival |-> parts[2]]

BusResult(d, route, parts) ==
    [name |-> Get(d, "busName", "N/A"),
     number |-> Get(d, "busNumber", "N/A"),
     route |-> route,
     departure |-> parts[1],
     arrival |-> parts[2],
     time |-> Get(d, "time", "N/A")]

\* the loop of find_trains over records[k..], results appended in order
RECURSIVE TrainLoop(_, _, _)
TrainLoop(records, k, q) ==
    IF k > Len(records) THEN <<>>
    ELSE LET d == records[k]
             route == Get(d, "route", <<>>)
             parts == Split(route, Separator)
         IN (IF PartsMatch(parts, q) THEN <<TrainResult(d, route, parts)>> ELSE <<>>)
            \o TrainLoop(records, k + 1, q)

RECURSIVE BusLoop(_, _, _)
BusLoop(records, k, q) ==
    IF k > Len(records) THEN <<>>
    ELSE LET d == records[k]
             route == Get(d, "route", <<>>)
             parts == Split(route, Separator)
         IN (IF PartsMatch(parts, q) THEN <<BusResult(d, route, parts)>> ELSE <<>>)
            \o BusLoop(records, k + 1, q)

find_trains(q) == TrainLoop(trains, 1, norm(q))

find_buses(q) == BusLoop(buses, 1, norm(q))

(***************************************************************************)
(* re.search(r"\b(\d{5})\b", query)                                        *)
(***************************************************************************)
WordAt(q, k) == k \in 1..Len(q) /\ IsWord(q[k])

\* \b between q[k] and q[k+1] (k = 0: start of string, k = Len(q): end)
Boundary(q, k) == WordAt(q, k) # WordAt(q, k + 1)

\* variant: the pattern without its two \b
MatchAt_NoBoundary(q, i) ==
    /\ i + 4 <= Len(q)
    /\ \A j \in i..(i + 4) : IsDigit(q[j])

MatchAt(q, i) ==
    /\ i + 4 <= Len(q)
    /\ Boundary(q, i - 1)
    /\ \A j \in i..(i + 4) : IsDigit(q[j])
    /\ Boundary(q, i + 4)

\* the leftmost match's group(1), or None
re_search(q) ==
    LET starts == {i \in 1..Len(q) : MatchAt(q, i)}
    IN IF starts = {} THEN None
       ELSE LET m == CHOOSE i \in starts : \A j \in starts : i <= j
            IN Some(SubSeq(q, m, m + 4))

(***************************************************************************)
(* Inputs: routes, dataset records and queries.                            *)
(***************************************************************************)
R_DelhiMumbai == <<"D","e","l","h","i"," ","t","o"," ","M","u","m","b","a","i">>
R_PuneGoa == <<"P","u","n","e"," ","t","o"," ","G","o","a","!">>
R_Empty == <<>>
R_NoSep == <<"D","e","l","h","i">>
R_ThreeParts == <<"G","o","a"," ","t","o"," ","P","u","n","e"," ","t","o"," ","D","e","l","h","i">>
R_OnlySep == <<" ","t","o"," ">>
R_EmptyArrival == <<"D","e","l","h","i"," ","t","o"," ">>

RoutePool == {R_DelhiMumbai, R_PuneGoa, R_Empty, R_NoSep, R_ThreeParts,
              R_OnlySep, R_EmptyArrival}

TrainRecord(route) ==
    [trainName |-> "Rajdhani", trainNumber |-> "101", route |-> route, duration |-> "16h"]

BusRecord(route) ==
    [busName |-> "Volvo", busNumber |-> "B7", route |-> route, time |-> "9:00"]

SeqsUpTo(S, n) == UNION {[1..k -> S] : k \in 0..n}

Q_BusDelhiMumbai == <<"b","u","s"," ","f","r","o","m"," ","d","e","l","h","i"," ","t","o"," ","m","u","m","b","a","i"," ","p","l","e","a","s","e">>
Q_Reversed == <<"M","U","M","B","A","I","-","D","E","L","H","I","?">>
Q_Inside == <<"d","e","l","h","i","g","h","a","t"," ","m","u","m","b","a","i","x">>
Q_GoaPune == <<"g","o","a"," ","p","u","n","e"," ","1","2","3","4","5">>
Q_Hello == <<"h","e","l","l","o"," ","t","h","e","r","e">>
Q_Punct == <<"D","e","l","-","h","i",","," ","M","u","m",".","b","a","i">>
Q_OneEnd == <<"d","e","l","h","i">>
Q_Status == <<"s","t","a","t","u","s"," ","o","f"," ","t","r","a","i","n"," ","1","2","3","4","5">>
Q_Glued == <<"t","r","a","i","n","1","2","3","4","5">>
Q_SixThenTwo == <<"1","2","3","4","5","6"," ","1","2","3","4","5"," ","2","1","2","1","2">>
Q_GluedThenTwo == <<"a","1","2","3","4","5"," ","2","1","2","1","2","-","1","2","3","4","5">>
Q_UnderThenOne == <<"1","2","3","4","5","_"," ","2","1","2","1","2">>

MatchQueries == {Q_BusDelhiMumbai, Q_Reversed, Q_Inside, Q_GoaPune, Q_Hello,
                 Q_Punct, Q_OneEnd}

RegexAlphabet == {"1", "a", "_", " "}
RegexQueries == {Q_Status, Q_Glued, Q_SixThenTwo, Q_GluedThenTwo, Q_UnderThenOne}

(***************************************************************************)
(* JSON values of the status API's response body, tagged with their type.  *)
(***************************************************************************)
JNull == [ty |-> "null", v |-> <<>>]
JBool(b) == [ty |-> "bool", v |-> b]
JNum(n) == [ty |-> "num", v |-> n]
JStr(s) == [ty |-> "str", v |-> s]
JList(l) == [ty |-> "list", v |-> l]
JObj(f) == [ty |-> "obj", v |-> f]

\* Python truthiness of a decoded JSON value
Truthy(j) ==
    CASE j.ty = "null" -> FALSE
      [] j.ty = "bool" -> j.v
      [] j.ty = "num" -> j.v # 0
      [] j.ty = "str" -> Len(j.v) > 0
      [] j.ty = "list" -> Len(j.v) > 0
      [] j.ty = "obj" -> DOMAIN j.v # {}

S_data == <<"d","a","t","a">>
S_12051 == <<"1","2","0","5","1">>
S_Shatabdi == <<"S","h","a","t","a","b","d","i"," ","E","x","p","r","e","s","s">>
S_Date == <<"2","0","2","5","-","0","9","-","1","8">>
S_NewDelhi == <<"N","e","w"," ","D","e","l","h","i">>
S_Time == <<"1","0",":","1","5"," ","A","M">>
S_22691 == <<"2","2","6","9","1">>
S_Bhopal == <<"B","h","o","p","a","l">>
S_NoData == <<"n","o"," ","d","a","t","a">>

\* fallback_train of parse_train_response
fallback_train ==
    [train_number |-> JStr(S_12051),
     train_name |-> JStr(S_Shatabdi),
     start_date |-> JStr(S_Date),
     current_station_name |-> JStr(S_NewDelhi),
     last_updated_time |-> JStr(S_Time),
     delay_in_minutes |-> JNum(0)]

(***************************************************************************)
(* What the status API can do on one call: the request raises (timeout,    *)
(* connection error), or a response arrives with a status code and a body  *)
(* that response.json() decodes (json = Some(value)) or rejects (None).    *)
(***************************************************************************)
ApiRaises(what) == [kind |-> what, code |-> 0, json |-> None]
ApiResponse(code, json) == [kind |-> "response", code |-> code, json |-> json]

DataKeys == {"train_number", "train_name", "start_date", "current_station_name",
             "last_updated_time", "delay_in_minutes"}

\* a complete "data" object of a live response, with the given delay
LiveData(delay) ==
    [train_number |-> JStr(S_22691), train_name |-> JStr(S_Bhopal),
     start_date |-> JStr(S_Date), current_station_name |-> JStr(S_Bhopal),
     last_updated_time |-> JStr(S_Time), delay_in_minutes |-> delay]

DelayValues == {JNum(15), JNum(0), JStr(<<"0">>), JNull}

Restrict(f, keys) == [k \in keys |-> f[k]]

\* "data" objects carrying any subset of the six fields
DataObjects ==
    {Restrict(LiveData(d), keys) : d \in DelayValues, keys \in SUBSET DataKeys}

ApiFailures ==
    { ApiRaises("timeout"),
      ApiRaises("connection_error"),
      ApiResponse(500, Some(JObj([data |-> JObj(LiveData(JNum(15)))]))),
      ApiResponse(200, None),
      ApiResponse(200, Some(JObj(<<>>))),
      ApiResponse(200, Some(JObj([message |-> JStr(S_NoData)]))) }

\* 200 responses whose body decodes to something else than an object with
\* a "data" object
ApiOddBodies ==
    { ApiResponse(200, Some(JObj([data |-> JNull]))),
      ApiResponse(200, Some(JObj([data |-> JStr(S_NoData)]))),
      ApiResponse(200, Some(JObj([data |-> JList(<<>>)]))),
      ApiResponse(200, Some(JList(<<JStr(S_data)>>))),
      ApiResponse(200, Some(JList(<<JStr(S_NoData)>>))),
      ApiResponse(200, Some(JList(<<>>))),
      ApiResponse(200, Some(JStr(S_NoData))),
      ApiResponse(200, Some(JStr(S_Bhopal))),
      ApiResponse(200, Some(JNum(5))),
      ApiResponse(200, Some(JNum(0))),
      ApiResponse(200, Some(JBool(TRUE))),
      ApiResponse(200, Some(JNull)) }

ApiLive == {ApiResponse(200, Some(JObj([data |-> JObj(o)]))) : o \in DataObjects}

ApiOutcomes == ApiFailures \cup ApiOddBodies \cup ApiLive

\* the outcomes the server specifications draw from
ServerApiOutcomes ==
    { ApiRaises("timeout"),
      ApiResponse(200, Some(JObj([data |-> JObj(LiveData(JNum(15)))]))),
      ApiResponse(200, Some(JObj([data |-> JNull]))) }

\* variant: the body is decoded whatever the status code
fetch_train_status_AnyCode(train_number, api) ==
    IF api.kind = "response" THEN api.json ELSE None

\* fetch_train_status: the decoded body of a 200 response, None on a non-200
\* response and on any exception (requests.get or response.json raising)
fetch_train_status(train_number, api) ==
    IF api.kind = "response" /\ api.code = 200 THEN api.json ELSE None

\* Python's `"data" in data`, for a truthy decoded value; "TypeError" where
\* the value is not a container
ContainsData(j) ==
    CASE j.ty = "obj" -> IF "data" \in DOMAIN j.v THEN "yes" ELSE "no"
      [] j.ty = "list" -> IF \E k \in 1..Len(j.v) : j.v[k] = JStr(S_data)
                          THEN "yes" ELSE "no"
      [] j.ty = "str" -> IF IsSubstring(S_data, j.v) THEN "yes" ELSE "no"
      [] OTHER -> "TypeError"

\* f"{delay_info} minutes" if delay_info else "On Time"
DelayText(delay_info) ==
    IF Truthy(delay_info)
    THEN [minutes |-> Some(delay_info), text |-> "minutes"]
    ELSE [minutes |-> None, text |-> "On Time"]

Raised(what) == [kind |-> "exception", value |-> what]
Returned(kind, value) == [kind |-> kind, value |-> value]

\* the report of parse_train_response, from the dict train_info
Report(train_info) ==
    [train_number |-> Get(train_info, "train_number", fallback_train.train_number),
     train_name |-> Get(train_info, "train_name", fallback_train.train_name),
     start_date |-> Get(train_info, "start_date", fallback_train.start_date),
     current_station |-> Get(train_info, "current_station_name",
                             fallback_train.current_station_name),
     last_updated |-> Get(train_info, "last_updated_time",
                          fallback_train.last_updated_time),
     delay_text |-> DelayText(Get(train_info, "delay_in_minutes",
                                  fallback_train.delay_in_minutes))]

\* parse_train_response(data): data is None or Some(decoded JSON value).
\* A decoded null is Python's None as well.
parse_train_response(data) ==
    IF data = None \/ ~Truthy(data[1])
    THEN Returned("status", Report(fallback_train))
    ELSE LET j == data[1]
             has == ContainsData(j)
         IN CASE has = "TypeError" -> Raised("TypeError")
              [] has = "no" -> Returned("status", Report(fallback_train))
              [] has = "yes" ->
                    IF j.ty # "obj" THEN Raised("AttributeError")
                    ELSE IF j.v.data.ty # "obj" THEN Raised("AttributeError")
                    ELSE Returned("status", Report(j.v.data.v))

(***************************************************************************)
(* Result Formatter.                                                       *)
(***************************************************************************)
format_trains(trains_list) ==
    IF trains_list = <<>> THEN None
    ELSE Some([header |-> "Trains Found",
               cards |-> [k \in 1..Len(trains_list) |->
                            [title |-> trains_list[k].name,
                             number |-> trains_list[k].number,
                             departure |-> trains_list[k].departure,
                             duration |-> trains_list[k].duration,
                             arrival |-> trains_list[k].arrival]]])

format_buses(buses_list) ==
    IF buses_list = <<>> THEN None
    ELSE Some([header |-> "Buses Found",
               cards |-> [k \in 1..Len(buses_list) |->
                            [title |-> buses_list[k].name,
                             number |-> buses_list[k].number,
                             departure |-> buses_list[k].departure,
                             arrival |-> buses_list[k].arrival,
                             time |-> buses_list[k].time]]])

(***************************************************************************)
(* The conversation list and the language-model call.                      *)
(***************************************************************************)
\* the system prompt, kept in one piece: the code never looks inside it
SystemPrompt ==
    <<"You are a travel enquiry assistant. Only answer about buses and trains. If unrelated, reply: 'I can only help with bus and train schedules.'">>

SystemMessage == [role |-> "system", content |-> SystemPrompt]

Message(role, content) == [role |-> role, content |-> content]

\* str.strip()
RECURSIVE LStrip(_)
LStrip(s) ==
    IF s # <<>> /\ Head(s) \in Whitespace THEN LStrip(Tail(s)) ELSE s

RECURSIVE RStrip(_)
RStrip(s) ==
    IF s # <<>> /\ s[Len(s)] \in Whitespace THEN RStrip(SubSeq(s, 1, Len(s) - 1)) ELSE s

Strip(s) == LStrip(RStrip(s))

Reply_Hi == <<"H","i">>
Reply_Padded == <<" ","O","k","\n">>

\* res.choices[0].message.content of a completed model call: a string or None
ReplyContents == {Some(Reply_Hi), Some(Reply_Padded), None}

\* exceptions client.chat.completions.create can raise
ModelErrors == {"APIConnectionError"}

(***************************************************************************)
(* The /ask handler.                                                       *)
(***************************************************************************)
Threads == {"A", "B"}
MainThread == "A"

Q_AgraOoty == <<"a","g","r","a"," ","o","o","t","y"," ","1","2","3","4","5">>
Q_Pnr == <<"p","n","r"," ","1","2","3","4","5">>
Q_Hi == <<"h","i">>

ServerQueries == {Q_GoaPune, Q_AgraOoty, Q_Pnr, Q_Hi}

\* a POST /ask: the "query" entry of the JSON body and of the form, each
\* absent (None) or a string, possibly empty
Requests ==
    [json : {None, Some(<<>>)} \cup {Some(q) : q \in ServerQueries},
     form : {None, Some(Q_Hi)}]

\* (request.get_json() or {}).get("query") or request.form.get("query")
RequestQuery(req) ==
    IF req.json # None /\ req.json[1] # <<>> THEN req.json ELSE req.form

\* `if q`
HasQuery(req) == RequestQuery(req) # None /\ RequestQuery(req)[1] # <<>>

R_AgraOoty == <<"A","g","r","a"," ","t","o"," ","O","o","t","y">>

TrainsFile == <<TrainRecord(R_PuneGoa)>>
BusesFile == <<BusRecord(R_PuneGoa), BusRecord(R_AgraOoty)>>

\* the two datasets as load_json finds them: the files, or no file at all
Datasets == {<<TrainsFile, BusesFile>>, <<<<>>, <<>>>>}

\* variant: the train number is looked for before the routes
Branch_NumberFirst(q) ==
    IF re_search(q) # None THEN "status"
    ELSE IF find_trains(q) # <<>> THEN "train"
    ELSE IF find_buses(q) # <<>> THEN "bus"
    ELSE "llm"

\* the branch chatbot takes for a query: the first that applies
Branch(q) ==
    IF find_trains(q) # <<>> THEN "train"
    ELSE IF find_buses(q) # <<>> THEN "bus"
    ELSE IF re_search(q) # None THEN "status"
    ELSE "llm"

InFlight == {t \in Threads : pc[t] # "idle"}

\* a request reaches thread t: the server is threaded, or nothing else runs
CanReceive(t) ==
    /\ pc[t] = "idle"
    /\ Len(log) + Cardinality(InFlight) < MaxRequests
    /\ threaded \/ (t = MainThread /\ InFlight = {})

\* one completed request: its query, how it ended (kind, value), the length
\* of `messages` when it began and when it ended, and what it exchanged
\* with the two collaborators
Entry(q, outcome, bef, aft, fwd, api, number, reply) ==
    [q |-> q, kind |-> outcome.kind, value |-> outcome.value,
     before |-> bef, after |-> aft, forwarded |-> fwd,
     api |-> api, number |-> number, reply |-> reply]

\* ask, with no usable query: chatbot is not called
AskNoQuery(t, req) ==
    /\ CanReceive(t)
    /\ ~HasQuery(req)
    /\ log' = Append(log, Entry(RequestQuery(req),
                                Returned("noquery", "No query provided"),
                                Len(messages), Len(messages),
                                None, None, None, None))
    /\ UNCHANGED <<messages, threaded, pc, query, before, forwarded,
                   llmCount, statusCount, trains, buses, pureVars>>

\* ask -> chatbot, train branch
AskTrain(t, req) ==
    /\ CanReceive(t)
    /\ HasQuery(req)
    /\ LET q == RequestQuery(req)[1]
       IN /\ Branch(q) = "train"
          /\ log' = Append(log, Entry(Some(q),
                                      Returned("train", format_trains(find_trains(q))),
                                      Len(messages), Len(messages),
                                      None, None, None, None))
    /\ UNCHANGED <<messages, threaded, pc, query, before, forwarded,
                   llmCount, statusCount, trains, buses, pureVars>>

\* ask -> chatbot, bus branch
AskBus(t, req) ==
    /\ CanReceive(t)
    /\ HasQuery(req)
    /\ LET q == RequestQuery(req)[1]
       IN /\ Branch(q) = "bus"
          /\ log' = Append(log, Entry(Some(q),
                                      Returned("bus", format_buses(find_buses(q))),
                                      Len(messages), Len(messages),
                                      None, None, None, None))
    /\ UNCHANGED <<messages, threaded, pc, query, before, forwarded,
                   llmCount, statusCount, trains, buses, pureVars>>

\* ask -> chatbot, live-status branch: one call of the status API, whose
\* outcome `api` the environment chooses
AskStatus(t, req) ==
    /\ CanReceive(t)
    /\ HasQuery(req)
    /\ LET q == RequestQuery(req)[1]
       IN /\ Branch(q) = "status"
          /\ \E api \in ServerApiOutcomes :
                LET train_number == re_search(q)[1]
                    api_data == fetch_train_status(train_number, api)
                IN log' = Append(log, Entry(Some(q), parse_train_response(api_data),
                                            Len(messages), Len(messages),
                                            None, Some(api), Some(train_number), None))
    /\ statusCount' = statusCount + 1
    /\ UNCHANGED <<messages, threaded, pc, query, before, forwarded, llmCount,
                   trains, buses, pureVars>>

\* variant: the list is started afresh for each query
AppendUser_Reset(msgs, q) == <<SystemMessage, Message("user", q)>>

\* messages.append({"role": "user", "content": query})
AppendUser(msgs, q) == Append(msgs, Message("user", q))

\* ask -> chatbot, fallback branch, up to messages.append of the user message
AskFallback(t, req) ==
    /\ CanReceive(t)
    /\ HasQuery(req)
    /\ LET q == RequestQuery(req)[1]
       IN /\ Branch(q) = "llm"
          /\ messages' = AppendUser(messages, q)
          /\ query' = [query EXCEPT ![t] = Some(q)]
    /\ before' = [before EXCEPT ![t] = Len(messages)]
    /\ pc' = [pc EXCEPT ![t] = "appended"]
    /\ UNCHANGED <<threaded, forwarded, log, llmCount, statusCount,
                   trains, buses, pureVars>>

\* variant: only the request's own exchange is sent
ForwardedHistory_Own(msgs, q) == <<SystemMessage, Message("user", q)>>

\* messages=messages: the call is given the list itself, whatever it holds
ForwardedHistory(msgs, q) == msgs

\* client.chat.completions.create(messages=messages): the request carries
\* the list as it is when the call is made
CallModel(t) ==
    /\ pc[t] = "appended"
    /\ forwarded' = [forwarded EXCEPT ![t] = Some(ForwardedHistory(messages, query[t][1]))]
    /\ llmCount' = llmCount + 1
    /\ pc' = [pc EXCEPT ![t] = "calling"]
    /\ UNCHANGED <<messages, threaded, query, before, log, statusCount,
                   trains, buses, pureVars>>

Finish(t) ==
    /\ pc' = [pc EXCEPT ![t] = "idle"]
    /\ query' = [query EXCEPT ![t] = None]
    /\ forwarded' = [forwarded EXCEPT ![t] = None]
    /\ before' = [before EXCEPT ![t] = 0]

\* res.choices[0].message.content.strip()
AssistantText(content) == Strip(content)

\* variant: the reply is stored with the wrong role
AppendAssistant_AsUser(msgs, ans) == Append(msgs, Message("user", ans))

\* messages.append({"role": "assistant", "content": ans})
AppendAssistant(msgs, ans) == Append(msgs, Message("assistant", ans))

\* variant: the handler takes the unanswered user message back
ExceptHandler_Rollback(msgs, err) ==
    [messages |-> SubSeq(msgs, 1, Len(msgs) - 1),
     answer |-> Returned("error", <<"Error: ", err>>)]

\* except Exception as e: return f"Error: {e}" -- `messages` is left as it is
ExceptHandler(msgs, err) ==
    [messages |-> msgs, answer |-> Returned("error", <<"Error: ", err>>)]

\* the call raised err, or .strip() raised on a None content
Failed(t, err) ==
    LET h == ExceptHandler(messages, err)
    IN /\ messages' = h.messages
       /\ log' = Append(log, Entry(query[t], h.answer, before[t], Len(h.messages),
                                   forwarded[t], None, None, None))

\* the call returns a reply: with text content the assistant message is
\* appended and returned; with content None .strip() raises AttributeError
ModelReturns(t, content) ==
    /\ pc[t] = "calling"
    /\ IF content = None
       THEN Failed(t, "AttributeError")
       ELSE LET ans == AssistantText(content[1])
            IN /\ messages' = AppendAssistant(messages, ans)
               /\ log' = Append(log, Entry(query[t], Returned("llm", ans),
                                           before[t], Len(messages) + 1,
                                           forwarded[t], None, None, Some(content)))
    /\ Finish(t)
    /\ UNCHANGED <<threaded, llmCount, statusCount, trains, buses, pureVars>>

\* the call raises
ModelRaises(t, err) ==
    /\ pc[t] = "calling"
    /\ Failed(t, err)
    /\ Finish(t)
    /\ UNCHANGED <<threaded, llmCount, statusCount, trains, buses, pureVars>>

\* the server as the module leaves it once loaded
ServerStart ==
    /\ messages = <<SystemMessage>>
    /\ pc = [t \in Threads |-> "idle"]
    /\ query = [t \in Threads |-> None]
    /\ before = [t \in Threads |-> 0]
    /\ forwarded = [t \in Threads |-> None]
    /\ log = <<>>
    /\ llmCount = 0
    /\ statusCount = 0

PureIdle ==
    /\ mq = <<>>
    /\ tres = None
    /\ bres = None
    /\ rx = None
    /\ sapi = None
    /\ sres = None

Receive(t) ==
    \/ \E req \in Requests : AskNoQuery(t, req)
    \/ \E req \in Requests : AskTrain(t, req)
    \/ \E req \in Requests : AskBus(t, req)
    \/ \E req \in Requests : AskStatus(t, req)
    \/ \E req \in Requests : AskFallback(t, req)

Complete(t) ==
    \/ CallModel(t)
    \/ \E content \in ReplyContents : ModelReturns(t, content)
    \/ \E err \in ModelErrors : ModelRaises(t, err)

\* requests handled one at a time
Init ==
    /\ \E dataset \in Datasets : trains = dataset[1] /\ buses = dataset[2]
    /\ ServerStart
    /\ threaded = FALSE
    /\ PureIdle

Next == \E t \in Threads : Receive(t) \/ Complete(t)

Spec == Init /\ [][Next]_vars

\* requests handled on concurrent threads (Flask's development server)
InitThreaded ==
    /\ \E dataset \in Datasets : trains = dataset[1] /\ buses = dataset[2]
    /\ ServerStart
    /\ threaded = TRUE
    /\ PureIdle

SpecThreaded == InitThreaded /\ [][Next]_vars

(***************************************************************************)
(* The Schedule Matcher as a pure function: every query of MatchQueries    *)
(* against every dataset of at most MaxRecords records.                    *)
(***************************************************************************)
RecordShapes == {Some(r) : r \in RoutePool} \cup {None}

TrainFrom(shape) ==
    IF shape = None THEN [trainName |-> "Duronto"] ELSE TrainRecord(shape[1])

BusFrom(shape) ==
    IF shape = None THEN [busName |-> "Sleeper"] ELSE BusRecord(shape[1])

InitMatch ==
    /\ \E shapes \in SeqsUpTo(RecordShapes, MaxRecords) :
          /\ trains = [k \in 1..Len(shapes) |-> TrainFrom(shapes[k])]
          /\ buses = [k \in 1..Len(shapes) |-> BusFrom(shapes[Len(shapes) + 1 - k])]
    /\ mq \in MatchQueries
    /\ tres = None
    /\ bres = None
    /\ rx = None
    /\ sapi = None
    /\ sres = None
    /\ ServerStart
    /\ threaded = FALSE

RunFindTrains ==
    /\ tres = None
    /\ tres' = Some(find_trains(mq))
    /\ UNCHANGED <<trains, buses, mq, bres, rx, sapi, sres, serverVars>>

RunFindBuses ==
    /\ bres = None
    /\ bres' = Some(find_buses(mq))
    /\ UNCHANGED <<trains, buses, mq, tres, rx, sapi, sres, serverVars>>

NextMatch == RunFindTrains \/ RunFindBuses

SpecMatch == InitMatch /\ [][NextMatch]_vars

(***************************************************************************)
(* The train-number regex as a pure function: every string of at most      *)
(* MaxLen characters over RegexAlphabet, and the queries of RegexQueries.  *)
(***************************************************************************)
InitRegex ==
    /\ mq \in SeqsUpTo(RegexAlphabet, MaxLen) \cup RegexQueries
    /\ trains = <<>>
    /\ buses = <<>>
    /\ tres = None
    /\ bres = None
    /\ rx = None
    /\ sapi = None
    /\ sres = None
    /\ ServerStart
    /\ threaded = FALSE

RunSearch ==
    /\ rx = None
    /\ rx' = Some(re_search(mq))
    /\ UNCHANGED <<trains, buses, mq, tres, bres, sapi, sres, serverVars>>

NextRegex == RunSearch

SpecRegex == InitRegex /\ [][NextRegex]_vars

(***************************************************************************)
(* The live-status branch as a pure function of the query and of what the  *)
(* status API does: every outcome of ApiOutcomes, with no dataset loaded.  *)
(***************************************************************************)
Q_12051 == <<"1","2","0","5","1">>
Q_TwoNumbers == <<"2","2","6","9","1"," ","o","r"," ","1","2","3","4","5","?">>

StatusQueries == {Q_Status, Q_12051, Q_TwoNumbers}

InitStatus ==
    /\ mq \in StatusQueries
    /\ sapi \in {Some(api) : api \in ApiOutcomes}
    /\ trains = <<>>
    /\ buses = <<>>
    /\ tres = None
    /\ bres = None
    /\ rx = None
    /\ sres = None
    /\ ServerStart
    /\ threaded = FALSE

\* chatbot's live-status branch: match, fetch_train_status, parse_train_response
RunStatus ==
    /\ sres = None
    /\ Branch(mq) = "status"
    /\ LET train_number == re_search(mq)[1]
           api_data == fetch_train_status(train_number, sapi[1])
       IN sres' = Some([number |-> train_number,
                        answer |-> parse_train_response(api_data)])
    /\ UNCHANGED <<trains, buses, mq, tres, bres, rx, sapi, serverVars>>

NextStatus == RunStatus

SpecStatus == InitStatus /\ [][NextStatus]_vars

(***************************************************************************)
(* Properties.                                                             *)
(***************************************************************************)
IsPrefix(a, b) == Len(a) <= Len(b) /\ SubSeq(b, 1, Len(a)) = a

OnLlmBranch(e) == e.kind \in {"llm", "error"}
OnStatusBranch(e) == e.kind \in {"status", "exception"}

\* C1: chatbot takes the first applicable branch in the order train report,
\* bus report, live status, language model: a query matching a train route
\* gets the train report whatever else it matches, with no status-API call
\* and no model call; a query matching no train route but a bus route gets
\* the bus report; otherwise a query with a 5-digit number goes to the
\* status API and every other query reaches the model call. The two call
\* counters count exactly the requests of the two branches.
C1_FirstApplicableBranch ==
    /\ \A i \in 1..Len(log) :
          LET e == log[i] IN
          e.kind # "noquery" =>
             LET q == e.q[1]
                 T == find_trains(q) # <<>>
                 B == find_buses(q) # <<>>
                 N == re_search(q) # None
             IN /\ T => e.kind = "train" /\ e.value = format_trains(find_trains(q))
                /\ (~T /\ B) => e.kind = "bus" /\ e.value = format_buses(find_buses(q))
                /\ (~T /\ ~B /\ N) =>
                      OnStatusBranch(e) /\ e.api # None /\ e.number = re_search(q)
                /\ (~T /\ ~B /\ ~N) => OnLlmBranch(e) /\ e.forwarded # None
                /\ e.kind \in {"train", "bus"} => e.api = None /\ e.forwarded = None
                /\ OnStatusBranch(e) => e.forwarded = None
                /\ OnLlmBranch(e) => e.api = None
    /\ \A t \in Threads :
          pc[t] # "idle" =>
             /\ find_trains(query[t][1]) = <<>>
             /\ find_buses(query[t][1]) = <<>>
             /\ re_search(query[t][1]) = None
    /\ statusCount = Cardinality({i \in 1..Len(log) : log[i].api # None})
    /\ llmCount = Cardinality({i \in 1..Len(log) : log[i].forwarded # None})
                  + Cardinality({t \in Threads : pc[t] = "calling"})

\* a train report for a query that also matches a bus route and holds a
\* 5-digit number
C1_Witness ==
    \E i \in 1..Len(log) :
        /\ log[i].kind = "train"
        /\ find_buses(log[i].q[1]) # <<>>
        /\ re_search(log[i].q[1]) # None
        /\ statusCount = 0
        /\ llmCount = 0

\* two calls one after the other, same query, both on the fallback branch
C2_Pair(i) ==
    /\ i + 1 <= Len(log)
    /\ OnLlmBranch(log[i])
    /\ OnLlmBranch(log[i + 1])
    /\ log[i].q = log[i + 1].q

\* the two calls appended user, assistant, user, assistant after what the
\* list held before
C2_FourAppended(i) ==
    LET b == log[i].before
        q == log[i].q[1]
    IN /\ log[i + 1].after = b + 4
       /\ Len(messages) >= b + 4
       /\ messages[b + 1] = Message("user", q)
       /\ messages[b + 2].role = "assistant"
       /\ messages[b + 3] = Message("user", q)
       /\ messages[b + 4].role = "assistant"
       /\ SubSeq(messages, 1, b) = SubSeq(log[i].forwarded[1], 1, b)

C3_AlwaysAnswers == \A i \in 1..Len(log) : log[i].kind # "exception"

NoModelKinds == {"train", "bus", "status", "exception", "noquery"}

\* C8: the conversation list only grows at its end, the system message
\* stays first, and a request answered by a train report, a bus report, the
\* live-status branch or "No query provided" leaves the list unchanged and
\* makes no model call.
C8_AppendOnly ==
    [][ /\ IsPrefix(messages, messages')
        /\ messages'[1] = SystemMessage
        /\ (Len(log') > Len(log) /\ log'[Len(log')].kind \in NoModelKinds) =>
              /\ messages' = messages
              /\ llmCount' = llmCount
              /\ log'[Len(log')].forwarded = None
              /\ log'[Len(log')].before = Len(messages)
              /\ log'[Len(log')].after = Len(messages)
      ]_vars

\* a status report answered after the list has grown
C8_Witness ==
    /\ Len(log) = 2
    /\ log[1].kind = "llm"
    /\ log[2].kind = "status"
    /\ Len(messages) = 3
    /\ llmCount = 1

\* C9: the list is shared by concurrent requests without synchronization:
\* the history a request forwards to the model is the shared list up to the
\* moment of its call, its own user message where the request appended it
\* and every message other requests appended before the call included, and
\* its reply is appended at the end of the shared list, wherever its user
\* message stands.
C9_SharedHistory ==
    /\ \A t \in Threads :
          pc[t] = "calling" =>
             LET f == forwarded[t][1] IN
             /\ IsPrefix(f, messages)
             /\ Len(f) > before[t]
             /\ f[before[t] + 1] = Message("user", query[t][1])
             /\ \A u \in Threads :
                   (pc[u] # "idle" /\ before[u] < Len(f)) =>
                       f[before[u] + 1] = Message("user", query[u][1])
    /\ \A i \in 1..Len(log) :
          log[i].forwarded # None =>
             LET f == log[i].forwarded[1] IN
             /\ IsPrefix(f, messages)
             /\ Len(f) > log[i].before
             /\ f[log[i].before + 1] = Message("user", log[i].q[1])
             /\ log[i].kind = "llm" =>
                   /\ log[i].after > Len(f)
                   /\ messages[log[i].after] = Message("assistant", log[i].value)

\* requests A and B, both answered: A's forwarded history holds B's user
\* message, the list ends system, user, user, assistant, assistant, and an
\* assistant reply does not follow the user message it answers
C9_Witness ==
    /\ Len(log) = 2
    /\ Len(messages) = 5
    /\ [k \in 1..5 |-> messages[k].role]
          = <<"system", "user", "user", "assistant", "assistant">>
    /\ \E a, b \in 1..2 :
          /\ a # b
          /\ log[a].kind = "llm"
          /\ log[b].kind = "llm"
          /\ Len(log[a].forwarded[1]) > log[b].before
          /\ log[a].before # log[b].before
          /\ log[a].forwarded[1][log[b].before + 1] = Message("user", log[b].q[1])
          /\ log[a].after # log[a].before + 2

\* the first request after i that calls the model
C10_NextCall(i) ==
    {j \in (i + 1)..Len(log) :
        /\ log[j].forwarded # None
        /\ \A k \in (i + 1)..(j - 1) : log[k].forwarded = None}

\* C10: when the model call fails, chatbot returns "Error: ..." and the
\* list is not rolled back: the call has appended exactly the user message
\* and no assistant message, so the next fallback call forwards a history
\* in which that user message is directly followed by the next one.
C10_ErrorKeepsUserMessage ==
    \A i \in 1..Len(log) :
        log[i].kind = "error" =>
            LET e == log[i]
                b == log[i].before
            IN /\ e.value[1] = "Error: "
               /\ e.after = b + 1
               /\ Len(messages) >= b + 1
               /\ messages[b + 1] = Message("user", e.q[1])
               /\ \A j \in C10_NextCall(i) :
                     LET f == log[j].forwarded[1] IN
                     /\ Len(f) = b + 2
                     /\ f[b + 1] = Message("user", e.q[1])
                     /\ f[b + 2] = Message("user", log[j].q[1])
               /\ \A t \in Threads :
                     (pc[t] = "calling" /\ C10_NextCall(i) = {}) =>
                        LET f == forwarded[t][1] IN
                        /\ Len(f) = b + 2
                        /\ f[b + 1] = Message("user", e.q[1])
                        /\ f[b + 2] = Message("user", query[t][1])

\* a failed call followed by another call on the fallback branch
C10_Witness ==
    /\ Len(log) = 2
    /\ log[1].kind = "error"
    /\ log[2].kind = "llm"
    /\ Len(log[2].forwarded[1]) = 3

\* the report built from the fixed fallback values alone
C4_FallbackReport ==
    [train_number |-> JStr(S_12051),
     train_name |-> JStr(S_Shatabdi),
     start_date |-> JStr(S_Date),
     current_station |-> JStr(S_NewDelhi),
     last_updated |-> JStr(S_Time),
     delay_text |-> [minutes |-> None, text |-> "On Time"]]

\* the call failed: it raised, the response is not a 200, the body is not
\* JSON, or the body is an object without a "data" entry
C4_Failure(api) ==
    \/ api.kind # "response"
    \/ api.code # 200
    \/ api.json = None
    \/ (api.json[1].ty = "obj" /\ "data" \notin DOMAIN api.json[1].v)

\* the response carries a "data" object
C4_CarriesData(api) ==
    /\ api.kind = "response"
    /\ api.code = 200
    /\ api.json # None
    /\ api.json[1].ty = "obj"
    /\ "data" \in DOMAIN api.json[1].v
    /\ api.json[1].v.data.ty = "obj"

C4_Field(o, key, fallback) == IF key \in DOMAIN o THEN o[key] ELSE fallback

\* zero, null, false or the empty string
C4_Falsy(d) ==
    \/ d.ty = "null"
    \/ (d.ty = "num" /\ d.v = 0)
    \/ (d.ty = "bool" /\ d.v = FALSE)
    \/ (d.ty = "str" /\ Len(d.v) = 0)

\* C4: on the live-status path a failed status call gives the report built
\* from the fixed fallback values, whatever train number was asked for; a
\* response carrying a "data" object gives, field by field, the response
\* value if present and the fallback value otherwise, the delay rendered
\* "On Time" when zero/falsy and "<n> minutes" otherwise.
C4_StatusReport ==
    sres # None =>
        LET api == sapi[1]
            a == sres[1].answer
        IN /\ C4_Failure(api) => a.kind = "status" /\ a.value = C4_FallbackReport
           /\ C4_CarriesData(api) =>
                LET o == api.json[1].v.data.v
                    d == C4_Field(o, "delay_in_minutes", JNum(0))
                IN /\ a.kind = "status"
                   /\ a.value.train_number = C4_Field(o, "train_number", JStr(S_12051))
                   /\ a.value.train_name = C4_Field(o, "train_name", JStr(S_Shatabdi))
                   /\ a.value.start_date = C4_Field(o, "start_date", JStr(S_Date))
                   /\ a.value.current_station
                         = C4_Field(o, "current_station_name", JStr(S_NewDelhi))
                   /\ a.value.last_updated
                         = C4_Field(o, "last_updated_time", JStr(S_Time))
                   /\ a.value.delay_text
                         = IF C4_Falsy(d)
                           THEN [minutes |-> None, text |-> "On Time"]
                           ELSE [minutes |-> Some(d), text |-> "minutes"]

\* a live response with a delay of 15 minutes and no train name, asked for
\* train 12345: the name is the fallback's, the rest is the response's
C4_Witness ==
    /\ sres # None
    /\ sres[1].number = <<"1","2","3","4","5">>
    /\ C4_CarriesData(sapi[1])
    /\ DOMAIN sapi[1].json[1].v.data.v = DataKeys \ {"train_name"}
    /\ sres[1].answer.value.train_name = JStr(S_Shatabdi)
    /\ sres[1].answer.value.train_number = JStr(S_22691)
    /\ sres[1].answer.value.delay_text = [minutes |-> Some(JNum(15)), text |-> "minutes"]

\* the separator stands at position i of route r
C5_SepAt(r, i) == i >= 1 /\ i + 3 <= Len(r) /\ SubSeq(r, i, i + 3) = Separator

\* the ways route r splits on " to " into exactly two parts: one
\* occurrence, and none after it
C5_TwoParts(r) ==
    {<<SubSeq(r, 1, i - 1), SubSeq(r, i + 4, Len(r))>> :
        i \in {i \in 1..Len(r) :
                 /\ C5_SepAt(r, i)
                 /\ \A j \in 1..Len(r) : C5_SepAt(r, j) => (i <= j /\ j < i + 4)}}

C5_KeptChar(c) == c \in LowerSet \cup Digits \cup {" "}

\* lowercased, every character outside [a-z0-9 ] removed
C5_Normalized(s) == SelectSeq(Lower(s), C5_KeptChar)

\* both normalized parts of the record's route occur in the normalized query
C5_Selected(d, q) ==
    \E p \in C5_TwoParts(Get(d, "route", <<>>)) :
        /\ IsSubstring(C5_Normalized(p[1]), C5_Normalized(q))
        /\ IsSubstring(C5_Normalized(p[2]), C5_Normalized(q))

\* result is the records of dataset that C5_Selected picks for q, in order
C5_IsSelection(result, dataset, q, nameKey) ==
    LET picked == {k \in 1..Len(dataset) : C5_Selected(dataset[k], q)}
        Rank(k) == Cardinality({j \in picked : j <= k})
    IN /\ Len(result) = Cardinality(picked)
       /\ \A k \in picked :
             /\ result[Rank(k)].route = dataset[k].route
             /\ result[Rank(k)].name = Get(dataset[k], nameKey, "N/A")
             /\ result[Rank(k)].departure \o Separator \o result[Rank(k)].arrival
                   = dataset[k].route

C5_Count(dataset, route) ==
    Cardinality({k \in 1..Len(dataset) : Get(dataset[k], "route", <<>>) = route})

\* C5: find_trains and find_buses return exactly the records, in dataset
\* order and with duplicates kept, whose route splits on " to " into exactly
\* two parts whose normalized forms both occur in the normalized query;
\* endpoint order, letter case, punctuation and token boundaries in the
\* query make no difference.
C5_ExactSubsequence ==
    /\ tres # None =>
          /\ C5_IsSelection(tres[1], trains, mq, "trainName")
          /\ mq \in {Q_BusDelhiMumbai, Q_Reversed, Q_Inside, Q_Punct} =>
                C5_Count(tres[1], R_DelhiMumbai) = C5_Count(trains, R_DelhiMumbai)
          /\ mq \in {Q_Hello, Q_OneEnd, Q_GoaPune} =>
                C5_Count(tres[1], R_DelhiMumbai) = 0
    /\ bres # None =>
          /\ C5_IsSelection(bres[1], buses, mq, "busName")
          /\ mq \in {Q_BusDelhiMumbai, Q_Reversed, Q_Inside, Q_Punct} =>
                C5_Count(bres[1], R_DelhiMumbai) = C5_Count(buses, R_DelhiMumbai)
          /\ mq \in {Q_Hello, Q_OneEnd, Q_GoaPune} =>
                C5_Count(bres[1], R_DelhiMumbai) = 0

\* the same record twice and a record without separator, queried with the
\* endpoints reversed, in capitals and with punctuation: both copies match
C5_Witness ==
    /\ tres # None
    /\ mq = Q_Reversed
    /\ trains = <<TrainRecord(R_DelhiMumbai), TrainRecord(R_DelhiMumbai)>>
    /\ Len(tres[1]) = 2

\* the route is empty, has no separator, has more than one, or has an empty
\* departure or arrival part
C7_Malformed(r) ==
    LET seps == {i \in 1..Len(r) : C5_SepAt(r, i)}
    IN \/ r = <<>>
       \/ seps = {}
       \/ Cardinality(seps) > 1
       \/ 1 \in seps
       \/ (Len(r) - 3) \in seps

\* C7: a record whose route is empty, has no " to ", has more than one, or
\* has an empty part on either side of it, is in the result of find_trains
\* and find_buses for no query.
C7_MalformedNeverMatch ==
    /\ tres # None => \A k \in 1..Len(tres[1]) : ~C7_Malformed(tres[1][k].route)
    /\ bres # None => \A k \in 1..Len(bres[1]) : ~C7_Malformed(bres[1][k].route)

\* five digits stand at positions i..i+4 of q
C6_Run(q, i) == i >= 1 /\ i + 4 <= Len(q) /\ \A j \in i..(i + 4) : q[j] \in Digits

\* ... with a non-digit, or nothing, on each side
C6_NonDigitSides(q, i) ==
    /\ C6_Run(q, i)
    /\ (i = 1 \/ q[i - 1] \notin Digits)
    /\ (i + 4 = Len(q) \/ q[i + 5] \notin Digits)

C6_WordChar(c) == c \in LowerSet \cup UpperSet \cup Digits \cup {"_"}

\* ... with a character that is no letter, digit or underscore, or nothing,
\* on each side
C6_NonWordSides(q, i) ==
    /\ C6_Run(q, i)
    /\ (i = 1 \/ ~C6_WordChar(q[i - 1]))
    /\ (i + 4 = Len(q) \/ ~C6_WordChar(q[i + 5]))

C6_First(q, starts) ==
    LET m == CHOOSE i \in starts : \A j \in starts : i <= j
    IN SubSeq(q, m, m + 4)

\* C6 as stated: a query is accepted exactly when it holds a run of exactly
\* 5 digits with a non-digit or the string's start/end on each side, and
\* the number passed on is the first such run.
C6_NonDigitBoundary ==
    rx # None =>
        LET starts == {i \in 1..Len(mq) : C6_NonDigitSides(mq, i)}
        IN rx[1] = IF starts = {} THEN None ELSE Some(C6_First(mq, starts))

\* C6, amended: a query is accepted exactly when it holds a run of 5 digits
\* whose neighbour on each side is a character that is no letter, digit or
\* underscore, or the string's start/end (so "train12345" and "12345_" are
\* not accepted), and the number passed on is the first such run.
C6_WordBoundary ==
    rx # None =>
        LET starts == {i \in 1..Len(mq) : C6_NonWordSides(mq, i)}
        IN rx[1] = IF starts = {} THEN None ELSE Some(C6_First(mq, starts))

\* "a12345 21212-12345": the run glued to a letter is passed over and the
\* first standalone run is the match
C6_Witness ==
    /\ rx # None
    /\ mq = Q_GluedThenTwo
    /\ rx[1] = Some(<<"2","1","2","1","2">>)

====
